---- MODULE Spec2Model ----
(***************************************************************************)
(* NER-For-CV-Extraction: the four scripts of the repository as state      *)
(* machines.                                                               *)
(*                                                                         *)
(*   SpecTrim    src/src/data_preprocessing.py  trim_entity_spans          *)
(*   SpecPrep    src/src/data_preprocessing.py  main from the split on:    *)
(*               train_test_split, convert_to_spacy twice                  *)
(*   SpecSweep   src/src/ner_training.py launch_sweep / train_sweep and    *)
(*               src/configs/spacy_train_sweep.py train_with_wandb_config  *)
(*   SpecInfer   src/src/inference.py  main / get_recruiter_summary        *)
(*                                                                         *)
(* A text is a sequence of one-character strings; the Python offset i      *)
(* names the element i + 1.  An entity is <<start, end, label>>, a record  *)
(* is <<text, entities>> (the "entities" key of the annotation dict is the *)
(* only one the code reads).                                               *)
(***************************************************************************)
EXTENDS Integers, Sequences, FiniteSets, TLC

VARIABLES
    prog,          \* which script this behaviour runs
    data,          \* trim_entity_spans: the argument
    cleaned_data,  \* trim_entity_spans: the list being built
    trimPc,        \* trim_entity_spans: "loop", "returned" or "raised"
    cleaned,       \* preprocessing main: cleaned_data after line 100
    train,         \* preprocessing main: the train split
    test,          \* preprocessing main: the test split
    prepPc,        \* preprocessing main: position
    db,            \* convert_to_spacy: doc.ents of every doc added to the DocBin
    outcomes,      \* convert_to_spacy: per doc, the branch each entity took
    call,          \* convert_to_spacy: which split the current call converts
    errorTxt,      \* the file error.txt: its lines
    trainLog,      \* error.txt as the train-split call closed it
    saved,         \* the .spacy files written by to_disk
    stdout,        \* standard output: the messages printed so far
    exitCode,      \* "none" while running, then the process's exit status
    sweepPc,       \* ner_training / spacy_train_sweep: position
    results,       \* per sweep run started: did spacy_train raise
    inferPc,       \* inference main: position
    useLlm,        \* USE_LLM_ANALYSIS
    pdfText,       \* text returned by extract_text_from_pdf
    nerJson,       \* ner_json returned by perform_ner_inference
    outFile,       \* the file OUTPUT_JSON
    jobInput,      \* what input() returned
    requests,      \* the HTTP requests issued so far
    response,      \* what requests.post met
    summary        \* the value get_recruiter_summary returned

vars == <<prog, data, cleaned_data, trimPc, cleaned, train, test, prepPc,
          db, outcomes, call, errorTxt, trainLog, saved, stdout, exitCode,
          sweepPc, results, inferPc, useLlm, pdfText, nerJson, outFile,
          jobInput, requests, response, summary>>

trimVars == <<data, cleaned_data, trimPc>>
prepVars == <<cleaned, train, test, prepPc, db, outcomes, call, errorTxt,
              trainLog, saved>>
ioVars == <<stdout, exitCode>>
sweepVars == <<sweepPc, results>>
inferVars == <<inferPc, useLlm, pdfText, nerJson, outFile, jobInput, requests,
               response, summary>>

-----------------------------------------------------------------------------
(* Bounds and input domains                                                *)

MaxTextLen == 3

Alphabet == {"a", " "}
Labels == {"NAME", "SKILL"}
EntityBudget == {0, 1, 2}
PrepLabels == {"SKILL"}
PrepEntityBudget == {0, 1, 2, 3}

Whitespace == {" ", "\t", "\n", "\r", "\f"}

TextsOfLen(n) == [1..n -> Alphabet]

-----------------------------------------------------------------------------
(* trim_entity_spans                                                       *)

\* re.compile(r'\s').match(c) on a one-character string
invalid_span_tokens(c) == c \in Whitespace

\* text[i]: Python indexing, negative offsets count from the end
InRange(text, i) == i >= -Len(text) /\ i < Len(text)
PyIndex(text, i) == IF i >= 0 THEN text[i + 1] ELSE text[Len(text) + i + 1]

Ok(v) == [raised |-> FALSE, value |-> v]
IndexError == [raised |-> TRUE, value |-> 0]

\* while valid_start < len(text) and match(text[valid_start]): valid_start += 1
RECURSIVE SkipLeading(_, _)
SkipLeading(text, valid_start) ==
    IF valid_start < Len(text)
    THEN IF ~InRange(text, valid_start) THEN IndexError
         ELSE IF invalid_span_tokens(PyIndex(text, valid_start))
              THEN SkipLeading(text, valid_start + 1)
              ELSE Ok(valid_start)
    ELSE Ok(valid_start)

\* while valid_end > valid_start and match(text[valid_end - 1]): valid_end -= 1
RECURSIVE SkipTrailing(_, _, _)
SkipTrailing(text, valid_start, valid_end) ==
    IF valid_end > valid_start
    THEN IF ~InRange(text, valid_end - 1) THEN IndexError
         ELSE IF invalid_span_tokens(PyIndex(text, valid_end - 1))
              THEN SkipTrailing(text, valid_start, valid_end - 1)
              ELSE Ok(valid_end)
    ELSE Ok(valid_end)

\* variant: <= lets an emptied span through
KeepsEmpty(valid_start, valid_end) == valid_start <= valid_end

\* if valid_start < valid_end
KeepSpan(valid_start, valid_end) == valid_start < valid_end

\* variant: the kept entity is inserted at the front
Prepended(valid_entities, ent) == <<ent>> \o valid_entities

\* valid_entities.append([valid_start, valid_end, label])
AppendEntity(valid_entities, ent) == Append(valid_entities, ent)

\* one pass of the inner loop body for the entity ent, valid_entities so far
TrimEntity(text, valid_entities, ent) ==
    LET vs == SkipLeading(text, ent[1]) IN
    IF vs.raised THEN IndexError
    ELSE LET ve == SkipTrailing(text, vs.value, ent[2]) IN
         IF ve.raised THEN IndexError
         ELSE IF KeepSpan(vs.value, ve.value)
              THEN Ok(AppendEntity(valid_entities, <<vs.value, ve.value, ent[3]>>))
              ELSE Ok(valid_entities)

\* the inner for loop from entity k on
RECURSIVE TrimEntities(_, _, _, _)
TrimEntities(text, entities, k, valid_entities) ==
    IF k > Len(entities) THEN Ok(valid_entities)
    ELSE LET r == TrimEntity(text, valid_entities, entities[k]) IN
         IF r.raised THEN IndexError
         ELSE TrimEntities(text, entities, k + 1, r.value)

\* the inputs: at most two records, MaxTextLen characters and
\* Max(EntityBudget) entities in all; start from -1 and end up to len + 1
\* are the out-of-range offsets
EntitiesFor(n) == (-1..n) \X (0..(n + 1)) \X Labels
RecordsWith(n, k) ==
    {<<t, es>> : t \in TextsOfLen(n), es \in [1..k -> EntitiesFor(n)]}
Shapes1 == (0..MaxTextLen) \X EntityBudget
Shapes2 ==
    {s \in (0..MaxTextLen) \X EntityBudget \X (0..MaxTextLen) \X EntityBudget :
        s[1] + s[3] <= MaxTextLen /\ (s[2] + s[4]) \in EntityBudget}
NoResponse ==
    [kind |-> "none", status |-> 0, json |-> FALSE, choices |-> 0,
     message |-> FALSE, hasContent |-> FALSE, content |-> ""]
NoSummary == <<"", "">>
NoFile == [exists |-> FALSE, complete |-> FALSE, content |-> <<>>]

SweepIdle == sweepPc = "idle" /\ results = <<>>
InferIdle ==
    /\ inferPc = "idle" /\ useLlm = FALSE /\ pdfText = "" /\ nerJson = <<>>
    /\ outFile = NoFile /\ jobInput = "" /\ requests = <<>>
    /\ response = NoResponse /\ summary = NoSummary
IoIdle == stdout = <<>> /\ exitCode = "none"

PrepIdle ==
    /\ cleaned = <<>> /\ train = <<>> /\ test = <<>> /\ prepPc = "idle"
    /\ db = <<>> /\ outcomes = <<>> /\ call = "none" /\ errorTxt = <<>>
    /\ trainLog = <<>> /\ saved = {}

InitTrim ==
    /\ prog = "trim"
    /\ \/ data = <<>>
       \/ \E s \in Shapes1 : \E r \in RecordsWith(s[1], s[2]) : data = <<r>>
       \/ \E s \in Shapes2 : \E r1 \in RecordsWith(s[1], s[2]) :
             \E r2 \in RecordsWith(s[3], s[4]) : data = <<r1, r2>>
    /\ cleaned_data = <<>>
    /\ trimPc = "loop"
    /\ PrepIdle /\ SweepIdle /\ InferIdle /\ IoIdle

\* one iteration of the outer loop: the record after those already cleaned
TrimRecord ==
    /\ prog = "trim" /\ trimPc = "loop"
    /\ Len(cleaned_data) < Len(data)
    /\ LET rec == data[Len(cleaned_data) + 1]
           r == TrimEntities(rec[1], rec[2], 1, <<>>)
       IN IF r.raised
          THEN /\ trimPc' = "raised"
               /\ UNCHANGED cleaned_data
          ELSE /\ cleaned_data' = Append(cleaned_data, <<rec[1], r.value>>)
               /\ UNCHANGED trimPc
    /\ UNCHANGED <<prog, data>>
    /\ UNCHANGED <<prepVars, ioVars, sweepVars, inferVars>>

\* return cleaned_data
TrimReturn ==
    /\ prog = "trim" /\ trimPc = "loop"
    /\ Len(cleaned_data) = Len(data)
    /\ trimPc' = "returned"
    /\ UNCHANGED <<prog, data, cleaned_data>>
    /\ UNCHANGED <<prepVars, ioVars, sweepVars, inferVars>>

NextTrim == TrimRecord \/ TrimReturn

SpecTrim == InitTrim /\ [][NextTrim]_vars

-----------------------------------------------------------------------------
(* convert_to_spacy and the part of preprocessing main that calls it       *)

LogPrefixLen == 60

\* nlp.make_doc(text) of spacy.blank("en"), for texts of letters and spaces:
\* every maximal run of non-whitespace characters is one token.  (Runs of
\* spaces also yield whitespace tokens; they are left out because a span
\* that trim_entity_spans returned neither starts nor ends on whitespace.)
TokenStarts(text) ==
    {i \in 0..(Len(text) - 1) :
        /\ text[i + 1] \notin Whitespace
        /\ (i = 0 \/ text[i] \in Whitespace)}
TokenEnds(text) ==
    {j \in 1..Len(text) :
        /\ text[j] \notin Whitespace
        /\ (j = Len(text) \/ text[j + 1] \in Whitespace)}

\* doc.char_span(start, end, label=label, alignment_mode="strict") is not None
CharSpan(text, start, end) ==
    start \in TokenStarts(text) /\ end \in TokenEnds(text)

\* list(range(start, end))
RangeList(start, end) ==
    IF end > start THEN [k \in 1..(end - start) |-> start + k - 1] ELSE <<>>

Contains(list, x) == \E k \in 1..Len(list) : list[k] = x

\* variant: only the first character of the span is looked up
StartReserved(entity_indices, start, end) == Contains(entity_indices, start)

\* any(idx in entity_indices for idx in range(start, end))
AnyReserved(entity_indices, start, end) ==
    \E idx \in start..(end - 1) : Contains(entity_indices, idx)

\* variant: only a span that aligned reserves its characters
ReserveIfAligned(text, entity_indices, start, end) ==
    IF CharSpan(text, start, end)
    THEN entity_indices \o RangeList(start, end)
    ELSE entity_indices

\* entity_indices.extend(list(range(start, end))), before char_span is tried
Reserve(text, entity_indices, start, end) ==
    entity_indices \o RangeList(start, end)

\* f"Invalid span: {start}-{end} in text: {text[:60]}...\n"
LogLine(text, start, end) ==
    <<start, end, SubSeq(text, 1, IF Len(text) < LogPrefixLen THEN Len(text)
                                  ELSE LogPrefixLen)>>

\* the loop over annot["entities"] from entity k on; st holds ents,
\* entity_indices, the lines written and the branch each entity took
RECURSIVE ConvertEntities(_, _, _, _)
ConvertEntities(text, entities, k, st) ==
    IF k > Len(entities) THEN st
    ELSE LET start == entities[k][1]
             end == entities[k][2]
         IN IF AnyReserved(st.entity_indices, start, end)
            THEN ConvertEntities(text, entities, k + 1,
                    [st EXCEPT !.taken = Append(@, "skipped")])
            ELSE LET idx == Reserve(text, st.entity_indices, start, end) IN
                 IF CharSpan(text, start, end)
                 THEN ConvertEntities(text, entities, k + 1,
                         [st EXCEPT !.entity_indices = idx,
                                    !.ents = Append(@, entities[k]),
                                    !.taken = Append(@, "added")])
                 ELSE ConvertEntities(text, entities, k + 1,
                         [st EXCEPT !.entity_indices = idx,
                                    !.lines = Append(@, LogLine(text, start, end)),
                                    !.taken = Append(@, "logged")])

\* one record: doc, ents and entity_indices start afresh
ConvertDoc(rec) ==
    ConvertEntities(rec[1], rec[2], 1,
        [ents |-> <<>>, entity_indices |-> <<>>, lines |-> <<>>, taken |-> <<>>])

\* variant: the log is opened with mode "a"
OpenAppend(contents) == contents

\* open(error_log, "w") empties the file
OpenLog(contents) == <<>>

\* the cleaned data main hands on: spans that trim_entity_spans returns for
\* in-range annotations (inside the text, non-empty, no whitespace at an edge)
TrimmedEntities(text) ==
    {ent \in (0..Len(text)) \X (0..Len(text)) \X PrepLabels :
        /\ ent[1] < ent[2]
        /\ text[ent[1] + 1] \notin Whitespace
        /\ text[ent[2]] \notin Whitespace}
TrimmedRecords(n, k) ==
    UNION {{<<t, es>> : es \in [1..k -> TrimmedEntities(t)]} : t \in TextsOfLen(n)}
PrepShapes1 == (0..MaxTextLen) \X PrepEntityBudget
PrepShapes2 ==
    {s \in (0..MaxTextLen) \X PrepEntityBudget \X (0..MaxTextLen) \X PrepEntityBudget :
        (s[2] + s[4]) \in PrepEntityBudget}

TrimIdle == data = <<>> /\ cleaned_data = <<>> /\ trimPc = "idle"

\* main after cleaned_data = trim_entity_spans(raw_data)
InitPrep ==
    /\ prog = "prep"
    /\ \/ cleaned = <<>>
       \/ \E s \in PrepShapes1 : \E r \in TrimmedRecords(s[1], s[2]) : cleaned = <<r>>
       \/ \E s \in PrepShapes2 : \E r1 \in TrimmedRecords(s[1], s[2]) :
             \E r2 \in TrimmedRecords(s[3], s[4]) : cleaned = <<r1, r2>>
    /\ train = <<>> /\ test = <<>> /\ prepPc = "split"
    /\ db = <<>> /\ outcomes = <<>> /\ call = "none" /\ errorTxt = <<>>
    /\ trainLog = <<>> /\ saved = {}
    /\ TrimIdle /\ SweepIdle /\ InferIdle /\ IoIdle

\* test_size = 0.2: ceil(0.2 * n) records go to the test split
NTest(n) == (n + 4) \div 5

\* train_test_split(cleaned_data, test_size=0.2, random_state=42): a shuffle
\* cut in two; it raises ValueError when the train split would be empty
Split ==
    /\ prog = "prep" /\ prepPc = "split"
    /\ Len(cleaned) - NTest(Len(cleaned)) >= 1
    /\ \E p \in [1..Len(cleaned) -> 1..Len(cleaned)] :
          /\ \A a, b \in 1..Len(cleaned) : a # b => p[a] # p[b]
          /\ LET nTrain == Len(cleaned) - NTest(Len(cleaned)) IN
             /\ train' = [k \in 1..nTrain |-> cleaned[p[k]]]
             /\ test' = [k \in 1..(Len(cleaned) - nTrain) |-> cleaned[p[nTrain + k]]]
    /\ prepPc' = "open"
    /\ UNCHANGED <<prog, cleaned, db, outcomes, call, errorTxt, trainLog, saved>>
    /\ UNCHANGED <<trimVars, ioVars, sweepVars, inferVars>>

SplitRaises ==
    /\ prog = "prep" /\ prepPc = "split"
    /\ Len(cleaned) - NTest(Len(cleaned)) < 1
    /\ prepPc' = "raised"
    /\ UNCHANGED <<prog, cleaned, train, test, db, outcomes, call, errorTxt,
                   trainLog, saved>>
    /\ UNCHANGED <<trimVars, ioVars, sweepVars, inferVars>>

Current == IF call = "train" THEN train ELSE IF call = "test" THEN test ELSE <<>>

\* convert_to_spacy entry: nlp, db = DocBin(), file = open(error_log, "w");
\* main calls it for the train split first, then for the test split
ConvertOpen ==
    /\ prog = "prep" /\ prepPc = "open"
    /\ db' = <<>> /\ outcomes' = <<>>
    /\ errorTxt' = OpenLog(errorTxt)
    /\ call' = (IF call = "none" THEN "train" ELSE "test")
    /\ prepPc' = "loop"
    /\ UNCHANGED <<prog, cleaned, train, test, trainLog, saved>>
    /\ UNCHANGED <<trimVars, ioVars, sweepVars, inferVars>>

\* one iteration of the loop over data: make_doc, the entity loop,
\* doc.ents = ents, db.add(doc)
ConvertRecord ==
    /\ prog = "prep" /\ prepPc = "loop"
    /\ Len(db) < Len(Current)
    /\ LET r == ConvertDoc(Current[Len(db) + 1]) IN
       /\ db' = Append(db, r.ents)
       /\ outcomes' = Append(outcomes, r.taken)
       /\ errorTxt' = errorTxt \o r.lines
    /\ UNCHANGED <<prog, cleaned, train, test, prepPc, call, trainLog, saved>>
    /\ UNCHANGED <<trimVars, ioVars, sweepVars, inferVars>>

\* db.to_disk(output_path); file.close(); then main goes on to the next call
ConvertSave ==
    /\ prog = "prep" /\ prepPc = "loop"
    /\ Len(db) = Len(Current)
    /\ saved' = saved \cup {<<call, db>>}
    /\ IF call = "train"
       THEN /\ trainLog' = errorTxt
            /\ prepPc' = "open"
       ELSE /\ prepPc' = "done"
            /\ UNCHANGED trainLog
    /\ UNCHANGED <<prog, cleaned, train, test, db, outcomes, call, errorTxt>>
    /\ UNCHANGED <<trimVars, ioVars, sweepVars, inferVars>>

NextPrep == Split \/ SplitRaises \/ ConvertOpen \/ ConvertRecord \/ ConvertSave

SpecPrep == InitPrep /\ [][NextPrep]_vars

-----------------------------------------------------------------------------
(* ner_training.py with RUN_SWEEP, and configs/spacy_train_sweep.py        *)

AgentCount == 10

InitSweep ==
    /\ prog \in {"sweep", "sweep_script"}
    /\ sweepPc = (IF prog = "sweep" THEN "main" ELSE "script")
    /\ results = <<>>
    /\ IoIdle /\ TrimIdle /\ PrepIdle /\ InferIdle

\* main -> launch_sweep up to the call of wandb.agent
LaunchSweep ==
    /\ prog = "sweep" /\ sweepPc = "main"
    /\ stdout' = stdout \o <<"Initializing W&B sweep", "Sweep created">>
    /\ sweepPc' = "agent"
    /\ UNCHANGED <<prog, results, exitCode>>
    /\ UNCHANGED <<trimVars, prepVars, inferVars>>

\* wandb.sweep raises: nothing catches it, the interpreter exits with status 1
SweepCreateRaises ==
    /\ prog = "sweep" /\ sweepPc = "main"
    /\ stdout' = stdout \o <<"Initializing W&B sweep">>
    /\ sweepPc' = "crashed" /\ exitCode' = "1"
    /\ UNCHANGED <<prog, results>>
    /\ UNCHANGED <<trimVars, prepVars, inferVars>>

\* wandb.agent(..., function=train_sweep, count=10) calls train_sweep, which
\* runs up to the call of spacy_train
AgentStartsRun ==
    /\ prog = "sweep" /\ sweepPc = "agent"
    /\ Len(results) < AgentCount
    /\ stdout' = stdout \o <<"Starting W&B sweep run", "Active Sweep Parameters">>
    /\ sweepPc' = "train"
    /\ UNCHANGED <<prog, results, exitCode>>
    /\ UNCHANGED <<trimVars, prepVars, inferVars>>

\* spacy_train returns; finally prints and train_sweep returns to the agent
TrainReturns ==
    /\ prog = "sweep" /\ sweepPc = "train"
    /\ results' = Append(results, FALSE)
    /\ stdout' = stdout \o <<"Run finished">>
    /\ sweepPc' = "agent"
    /\ UNCHANGED <<prog, exitCode>>
    /\ UNCHANGED <<trimVars, prepVars, inferVars>>

\* variant: the handler ends the process, as spacy_train_sweep.py's does
HandlerExits == [pc |-> "exited", exit |-> "1"]

\* except Exception: print(...); finally: print(...): train_sweep returns
\* normally to the agent
HandlerReturns == [pc |-> "agent", exit |-> "none"]

\* spacy_train raises inside train_sweep
TrainRaises ==
    /\ prog = "sweep" /\ sweepPc = "train"
    /\ results' = Append(results, TRUE)
    /\ stdout' = stdout \o <<"Training failed", "Run finished">>
    /\ sweepPc' = HandlerReturns.pc
    /\ exitCode' = HandlerReturns.exit
    /\ UNCHANGED prog
    /\ UNCHANGED <<trimVars, prepVars, inferVars>>

\* the agent has made its count runs; launch_sweep and main return
AgentReturns ==
    /\ prog = "sweep" /\ sweepPc = "agent"
    /\ Len(results) = AgentCount
    /\ stdout' = stdout \o <<"Sweep completed">>
    /\ sweepPc' = "done" /\ exitCode' = "0"
    /\ UNCHANGED <<prog, results>>
    /\ UNCHANGED <<trimVars, prepVars, inferVars>>

\* spacy_train_sweep.py: wandb.init(), overrides; spacy.cli.train returns
ScriptTrainReturns ==
    /\ prog = "sweep_script" /\ sweepPc = "script"
    /\ results' = Append(results, FALSE)
    /\ sweepPc' = "done" /\ exitCode' = "0"
    /\ UNCHANGED <<prog, stdout>>
    /\ UNCHANGED <<trimVars, prepVars, inferVars>>

\* spacy_train_sweep.py: spacy.cli.train raises: print, wandb.finish(exit_code=1),
\* sys.exit(1)
ScriptTrainRaises ==
    /\ prog = "sweep_script" /\ sweepPc = "script"
    /\ results' = Append(results, TRUE)
    /\ stdout' = stdout \o <<"An error occurred during training">>
    /\ sweepPc' = "exited" /\ exitCode' = "1"
    /\ UNCHANGED prog
    /\ UNCHANGED <<trimVars, prepVars, inferVars>>

NextSweep ==
    \/ LaunchSweep \/ SweepCreateRaises \/ AgentStartsRun \/ TrainReturns
    \/ TrainRaises \/ AgentReturns \/ ScriptTrainReturns \/ ScriptTrainRaises

SpecSweep == InitSweep /\ [][NextSweep]_vars

-----------------------------------------------------------------------------
(* inference.py                                                            *)

\* what the PDF and the model can yield: a text, and ner_json, one
\* [ent.text, {"entities": [[start_char, end_char, label_]]}] per entity
PdfTexts == {"", "Ana Python"}
NerResults(text) ==
    IF text = "" THEN {<<>>}
    ELSE {<<>>,
          <<<<"Ana", <<<<0, 3, "NAME">>>>>>>>,
          <<<<"Ana", <<<<0, 3, "NAME">>>>>>, <<"Python", <<<<4, 10, "SKILL">>>>>>>>}

OldFile == [exists |-> TRUE, complete |-> TRUE, content |-> <<<<"old">>>>]

\* what the POST can meet: an exception of requests, or a response with a
\* status, a body that parses as JSON or not, and in the body a "choices"
\* list (-1: no such key) whose first element has a "message" with "content"
Reply(status, json, choices, message, hasContent, content) ==
    [kind |-> "response", status |-> status, json |-> json, choices |-> choices,
     message |-> message, hasContent |-> hasContent, content |-> content]
Responses ==
    {[NoResponse EXCEPT !.kind = "ConnectionError"],
     [NoResponse EXCEPT !.kind = "Timeout"],
     Reply(500, TRUE, 1, TRUE, TRUE, "COCOK"),
     Reply(401, FALSE, -1, FALSE, FALSE, ""),
     Reply(200, FALSE, -1, FALSE, FALSE, ""),
     Reply(200, TRUE, -1, FALSE, FALSE, ""),
     Reply(200, TRUE, 0, FALSE, FALSE, ""),
     Reply(200, TRUE, 1, FALSE, FALSE, ""),
     Reply(200, TRUE, 1, TRUE, FALSE, ""),
     Reply(200, TRUE, 1, TRUE, TRUE, "COCOK"),
     Reply(200, TRUE, 2, TRUE, TRUE, "TIDAK COCOK")}

DefaultJob == "Staff Divisi Sponsor"
\* the prefix of the returned error string (its leading cross mark left out)
ErrorPrefix == "Error during recruiter summary generation: "
Header == "--- HASIL ANALISIS KESESUAIAN KANDIDAT ---"

InitInfer ==
    /\ prog = "infer"
    /\ inferPc = "extract"
    /\ useLlm \in BOOLEAN
    /\ outFile \in {NoFile, OldFile}
    /\ pdfText = "" /\ nerJson = <<>> /\ jobInput = "" /\ requests = <<>>
    /\ response = NoResponse /\ summary = NoSummary
    /\ IoIdle /\ TrimIdle /\ PrepIdle /\ SweepIdle

\* an exception nothing catches: traceback, exit status 1
Crash == inferPc' = "crashed" /\ exitCode' = "1"

\* text = extract_text_from_pdf(PDF_PATH)
ExtractText ==
    /\ prog = "infer" /\ inferPc = "extract"
    /\ pdfText' \in PdfTexts
    /\ stdout' = stdout \o <<"Extracting text">>
    /\ inferPc' = "ner"
    /\ UNCHANGED <<prog, exitCode, useLlm, nerJson, outFile, jobInput, requests,
                   response, summary>>
    /\ UNCHANGED <<trimVars, prepVars, sweepVars>>

\* fitz.open raises (no such file, not a PDF)
ExtractRaises ==
    /\ prog = "infer" /\ inferPc = "extract"
    /\ stdout' = stdout \o <<"Extracting text">>
    /\ Crash
    /\ UNCHANGED <<prog, useLlm, pdfText, nerJson, outFile, jobInput, requests,
                   response, summary>>
    /\ UNCHANGED <<trimVars, prepVars, sweepVars>>

\* entities, ner_json = perform_ner_inference(MODEL_PATH, text)
PerformNer ==
    /\ prog = "infer" /\ inferPc = "ner"
    /\ nerJson' \in NerResults(pdfText)
    /\ stdout' = stdout \o <<"Loading NER model", "Detected entities">>
    /\ inferPc' = "open"
    /\ UNCHANGED <<prog, exitCode, useLlm, pdfText, outFile, jobInput, requests,
                   response, summary>>
    /\ UNCHANGED <<trimVars, prepVars, sweepVars>>

\* spacy.load raises (no model at MODEL_PATH)
NerRaises ==
    /\ prog = "infer" /\ inferPc = "ner"
    /\ stdout' = stdout \o <<"Loading NER model">>
    /\ Crash
    /\ UNCHANGED <<prog, useLlm, pdfText, nerJson, outFile, jobInput, requests,
                   response, summary>>
    /\ UNCHANGED <<trimVars, prepVars, sweepVars>>

\* with open(OUTPUT_JSON, "w", encoding="utf-8") as f: the file is emptied
OpenOutput ==
    /\ prog = "infer" /\ inferPc = "open"
    /\ outFile' = [exists |-> TRUE, complete |-> FALSE, content |-> <<>>]
    /\ inferPc' = "dump"
    /\ UNCHANGED <<prog, stdout, exitCode, useLlm, pdfText, nerJson, jobInput,
                   requests, response, summary>>
    /\ UNCHANGED <<trimVars, prepVars, sweepVars>>

\* open raises (no ./examples directory, no permission)
OpenRaises ==
    /\ prog = "infer" /\ inferPc = "open"
    /\ Crash
    /\ UNCHANGED <<prog, stdout, useLlm, pdfText, nerJson, outFile, jobInput,
                   requests, response, summary>>
    /\ UNCHANGED <<trimVars, prepVars, sweepVars>>

\* json.dump(ner_json, f, ...), the with block closes f, print
DumpJson ==
    /\ prog = "infer" /\ inferPc = "dump"
    /\ outFile' = [exists |-> TRUE, complete |-> TRUE, content |-> nerJson]
    /\ stdout' = stdout \o <<"Saved extracted entities">>
    /\ inferPc' = "show"
    /\ UNCHANGED <<prog, exitCode, useLlm, pdfText, nerJson, jobInput, requests,
                   response, summary>>
    /\ UNCHANGED <<trimVars, prepVars, sweepVars>>

\* a write fails (disk full): some leading part of the JSON is in the file
DumpRaises ==
    /\ prog = "infer" /\ inferPc = "dump"
    /\ \E n \in 0..Len(nerJson) :
          outFile' = [exists |-> TRUE, complete |-> FALSE,
                      content |-> SubSeq(nerJson, 1, n)]
    /\ Crash
    /\ UNCHANGED <<prog, stdout, useLlm, pdfText, nerJson, jobInput, requests,
                   response, summary>>
    /\ UNCHANGED <<trimVars, prepVars, sweepVars>>

\* df = pd.DataFrame(entities); print; print(df.head(15)); if USE_LLM_ANALYSIS
ShowEntities ==
    /\ prog = "infer" /\ inferPc = "show"
    /\ stdout' = stdout \o <<"=== Extracted Entities ===">>
    /\ IF useLlm
       THEN inferPc' = "ask" /\ UNCHANGED exitCode
       ELSE inferPc' = "done" /\ exitCode' = "0"
    /\ UNCHANGED <<prog, useLlm, pdfText, nerJson, outFile, jobInput, requests,
                   response, summary>>
    /\ UNCHANGED <<trimVars, prepVars, sweepVars>>

\* variant: the typed value is used as it is
NoDefault(typed) == typed

\* input("...") or "Staff Divisi Sponsor"
JobPosition(typed) == IF typed = "" THEN DefaultJob ELSE typed

\* job_position = input(...) or ...
ReadJobPosition ==
    /\ prog = "infer" /\ inferPc = "ask"
    /\ jobInput' \in {"", "Data Analyst"}
    /\ inferPc' = "call"
    /\ UNCHANGED <<prog, stdout, exitCode, useLlm, pdfText, nerJson, outFile,
                   requests, response, summary>>
    /\ UNCHANGED <<trimVars, prepVars, sweepVars>>

\* the exception the try block ends with on the reply r, "none" if it returns:
\* requests.post, raise_for_status, response.json(),
\* result["choices"][0]["message"]["content"]
Raised(r) ==
    IF r.kind # "response" THEN r.kind
    ELSE IF r.status >= 400 THEN "HTTPError"
    ELSE IF ~r.json THEN "JSONDecodeError"
    ELSE IF r.choices < 0 THEN "KeyError"
    ELSE IF r.choices = 0 THEN "IndexError"
    ELSE IF ~r.message THEN "KeyError"
    ELSE IF ~r.hasContent THEN "KeyError"
    ELSE "none"

\* variant: except requests.RequestException
CaughtIfRequests(exc) == exc \in {"ConnectionError", "Timeout", "HTTPError"}

\* except Exception as e
Caught(exc) == TRUE

\* summary = get_recruiter_summary(job_position, ner_json)
CallApi ==
    /\ prog = "infer" /\ inferPc = "call"
    /\ stdout' = stdout \o <<"Calling OpenRouter API">>
    /\ requests' = Append(requests,
                     [job |-> JobPosition(jobInput), ner |-> nerJson])
    /\ \E r \in Responses :
          /\ response' = r
          /\ IF Raised(r) = "none"
             THEN /\ summary' = <<"", r.content>>
                  /\ inferPc' = "print" /\ UNCHANGED exitCode
             ELSE IF Caught(Raised(r))
                  THEN /\ summary' = <<ErrorPrefix, Raised(r)>>
                       /\ inferPc' = "print" /\ UNCHANGED exitCode
                  ELSE /\ Crash /\ UNCHANGED summary
    /\ UNCHANGED <<prog, useLlm, pdfText, nerJson, outFile, jobInput>>
    /\ UNCHANGED <<trimVars, prepVars, sweepVars>>

\* print(header); print(summary); main returns
PrintSummary ==
    /\ prog = "infer" /\ inferPc = "print"
    /\ stdout' = stdout \o <<Header, summary>>
    /\ inferPc' = "done" /\ exitCode' = "0"
    /\ UNCHANGED <<prog, useLlm, pdfText, nerJson, outFile, jobInput, requests,
                   response, summary>>
    /\ UNCHANGED <<trimVars, prepVars, sweepVars>>

NextInfer ==
    \/ ExtractText \/ ExtractRaises \/ PerformNer \/ NerRaises
    \/ OpenOutput \/ OpenRaises \/ DumpJson \/ DumpRaises
    \/ ShowEntities \/ ReadJobPosition \/ CallApi \/ PrintSummary

SpecInfer == InitInfer /\ [][NextInfer]_vars

-----------------------------------------------------------------------------
(* Claims about trim_entity_spans (SpecTrim)                               *)

\* the offsets the annotation format promises
ValidOffsets(text, ent) == 0 <= ent[1] /\ ent[1] <= ent[2] /\ ent[2] <= Len(text)
AllValidOffsets(rec) == \A k \in 1..Len(rec[2]) : ValidOffsets(rec[1], rec[2][k])

\* the span [start, end) of text holds a character that is not whitespace
HasInk(text, ent) ==
    \E p \in 1..Len(text) : ent[1] < p /\ p <= ent[2] /\ text[p] \notin Whitespace

\* a returned span: inside the text, non-empty, no whitespace at either edge
CleanSpan(text, ent) ==
    /\ 0 <= ent[1] /\ ent[1] < ent[2] /\ ent[2] <= Len(text)
    /\ text[ent[1] + 1] \notin Whitespace
    /\ text[ent[2]] \notin Whitespace

\* C1: for a record whose input entities all have 0 <= start <= end <=
\* len(text), every entity of the returned record lies inside the text, is
\* non-empty and neither starts nor ends with whitespace, and the returned
\* record holds exactly as many entities as the input has spans with a
\* non-whitespace character (empty and all-whitespace spans are dropped); such
\* a record never makes the function raise.
C1_TrimmedSpansAreClean ==
    /\ \A i \in 1..Len(cleaned_data) :
          AllValidOffsets(data[i]) =>
             /\ \A k \in 1..Len(cleaned_data[i][2]) :
                   CleanSpan(cleaned_data[i][1], cleaned_data[i][2][k])
             /\ Len(cleaned_data[i][2]) =
                   Cardinality({k \in 1..Len(data[i][2]) :
                                   HasInk(data[i][1], data[i][2][k])})
    /\ (\A i \in 1..Len(data) : AllValidOffsets(data[i])) => trimPc # "raised"

\* a returned record where whitespace was cut from both edges of one entity
\* and an all-whitespace entity was dropped
C1_Witness ==
    /\ trimPc = "returned"
    /\ \E i \in 1..Len(data) :
          /\ AllValidOffsets(data[i])
          /\ Len(data[i][2]) = 2 /\ Len(cleaned_data[i][2]) = 1
          /\ \E k \in 1..2 :
                /\ cleaned_data[i][2][1][1] > data[i][2][k][1]
                /\ cleaned_data[i][2][1][2] < data[i][2][k][2]
                /\ cleaned_data[i][2][1][3] = data[i][2][k][3]
          /\ \E k \in 1..2 :
                data[i][2][k][1] < data[i][2][k][2] /\ ~HasInk(data[i][1], data[i][2][k])

\* C2: for any input offsets, in range or not, the function returns normally
\* and every returned entity satisfies 0 <= s < e <= len(text).
C2_OffsetsAreValidated ==
    /\ trimPc # "raised"
    /\ \A i \in 1..Len(cleaned_data) : \A k \in 1..Len(cleaned_data[i][2]) :
          LET ent == cleaned_data[i][2][k] IN
          0 <= ent[1] /\ ent[1] < ent[2] /\ ent[2] <= Len(cleaned_data[i][1])

\* out derives from inp: an order-preserving choice of one input entity per
\* returned entity, same label, start <= s < e <= end
DerivesFrom(out, inp) ==
    \E f \in [1..Len(out) -> 1..Len(inp)] :
       /\ \A a, b \in 1..Len(out) : a < b => f[a] < f[b]
       /\ \A a \in 1..Len(out) :
             /\ out[a][3] = inp[f[a]][3]
             /\ inp[f[a]][1] <= out[a][1]
             /\ out[a][1] < out[a][2]
             /\ out[a][2] <= inp[f[a]][2]

\* C5: the records cleaned so far are the first input records in order, each
\* with its text unchanged and with entities that derive, in order, from input
\* entities of that record (same label, start <= s < e <= end); when the
\* function returns there is one record per input record, so a record whose
\* entities were all dropped is still there with an empty list.
C5_OnlyOffsetsChange ==
    /\ Len(cleaned_data) <= Len(data)
    /\ \A i \in 1..Len(cleaned_data) :
          /\ cleaned_data[i][1] = data[i][1]
          /\ DerivesFrom(cleaned_data[i][2], data[i][2])
    /\ trimPc = "returned" => Len(cleaned_data) = Len(data)

\* two records returned: one lost all its entities, the other kept a span
\* that was cut at the start
C5_Witness ==
    /\ trimPc = "returned" /\ Len(data) = 2
    /\ \E i, j \in 1..2 :
          /\ Len(data[i][2]) > 0 /\ cleaned_data[i][2] = <<>>
          /\ Len(cleaned_data[j][2]) = 1
          /\ cleaned_data[j][2][1][1] > data[j][2][1][1]

-----------------------------------------------------------------------------
(* Claims about convert_to_spacy and preprocessing main (SpecPrep)         *)

\* the character ranges [start, end) of two entities share an index
Overlap(e1, e2) == e1[1] < e2[2] /\ e2[1] < e1[2]

\* the entities of the record behind the i-th doc of the current call
EntsOf(i) == Current[i][2]
TextOf(i) == Current[i][1]

PairwiseDisjoint(ents) ==
    \A a, b \in 1..Len(ents) : a # b => ~Overlap(ents[a], ents[b])

\* C3 as stated: the spans given to doc.ents are pairwise disjoint, and of any
\* two overlapping entities of a record the later one is skipped, the earlier
\* one being the only one of the two that is considered.
C3_EarlierAlwaysWins ==
    \A i \in 1..Len(db) :
       /\ PairwiseDisjoint(db[i])
       /\ \A j, k \in 1..Len(EntsOf(i)) :
             (j < k /\ Overlap(EntsOf(i)[j], EntsOf(i)[k])) =>
                outcomes[i][k] = "skipped"

\* C3 amended: the spans given to doc.ents are pairwise disjoint, and of any
\* two overlapping entities of a record the later one is skipped whenever the
\* earlier one was not itself skipped.
C3_DisjointEnts ==
    \A i \in 1..Len(db) :
       /\ PairwiseDisjoint(db[i])
       /\ \A j, k \in 1..Len(EntsOf(i)) :
             (j < k /\ Overlap(EntsOf(i)[j], EntsOf(i)[k])
                    /\ outcomes[i][j] # "skipped") =>
                outcomes[i][k] = "skipped"

\* a doc with two added spans and a skipped entity that overlapped the first
C3_Witness ==
    \E i \in 1..Len(db) :
       /\ Len(db[i]) = 2
       /\ \E j, k \in 1..Len(EntsOf(i)) :
             /\ j < k /\ Overlap(EntsOf(i)[j], EntsOf(i)[k])
             /\ outcomes[i][j] = "added" /\ outcomes[i][k] = "skipped"

\* the sub-list of seq at the positions whose outcome is what
RECURSIVE Picked(_, _, _, _)
Picked(seq, taken, what, k) ==
    IF k > Len(seq) THEN <<>>
    ELSE (IF taken[k] = what THEN <<seq[k]>> ELSE <<>>)
         \o Picked(seq, taken, what, k + 1)

RECURSIVE LinesOfDocs(_)
LinesOfDocs(i) ==
    IF i = 0 THEN <<>>
    ELSE LinesOfDocs(i - 1)
         \o Picked([k \in 1..Len(EntsOf(i)) |->
                       <<EntsOf(i)[k][1], EntsOf(i)[k][2], TextOf(i)>>],
                   outcomes[i], "logged", 1)

\* C8: every entity of a converted record takes exactly one of three
\* branches: skipped iff its range shares an index with an earlier entity of
\* the record that was not skipped; otherwise added to doc.ents iff it is
\* strictly token-aligned, otherwise logged.  doc.ents is exactly the added
\* entities and error.txt holds exactly one line per logged entity, in order.
\* So an entity overlapping only an earlier logged entity is skipped.
C8_ThreeOutcomes ==
    /\ Len(outcomes) = Len(db)
    /\ \A i \in 1..Len(db) :
          /\ Len(outcomes[i]) = Len(EntsOf(i))
          /\ \A k \in 1..Len(EntsOf(i)) :
                /\ outcomes[i][k] \in {"skipped", "added", "logged"}
                /\ outcomes[i][k] = "skipped" <=>
                      \E j \in 1..(k - 1) :
                         /\ outcomes[i][j] # "skipped"
                         /\ Overlap(EntsOf(i)[j], EntsOf(i)[k])
                /\ outcomes[i][k] = "added" =>
                      CharSpan(TextOf(i), EntsOf(i)[k][1], EntsOf(i)[k][2])
                /\ outcomes[i][k] = "logged" =>
                      ~CharSpan(TextOf(i), EntsOf(i)[k][1], EntsOf(i)[k][2])
          /\ db[i] = Picked(EntsOf(i), outcomes[i], "added", 1)
    /\ call # "none" => errorTxt = LinesOfDocs(Len(db))

\* a record where an entity was logged and a later one, overlapping only
\* that logged entity, was skipped: nothing was added and one line written
C8_Witness ==
    \E i \in 1..Len(db) :
       \E j, k \in 1..Len(EntsOf(i)) :
          /\ j < k
          /\ outcomes[i][j] = "logged" /\ outcomes[i][k] = "skipped"
          /\ db[i] = <<>>
          /\ Overlap(EntsOf(i)[j], EntsOf(i)[k])
          /\ \A q \in 1..(k - 1) :
                Overlap(EntsOf(i)[q], EntsOf(i)[k]) => outcomes[i][q] = "logged"
          /\ Len(errorTxt) = 1

\* the "Invalid span" lines of a split: per record, one line for every
\* entity that overlaps no earlier considered entity and is not aligned
Considered(rec) ==
    CHOOSE S \in SUBSET (1..Len(rec[2])) :
       \A k \in 1..Len(rec[2]) :
          k \in S <=> ~\E j \in S : j < k /\ Overlap(rec[2][j], rec[2][k])
RECURSIVE InvalidLinesOfRecord(_, _)
InvalidLinesOfRecord(rec, k) ==
    IF k > Len(rec[2]) THEN <<>>
    ELSE (IF k \in Considered(rec) /\ ~CharSpan(rec[1], rec[2][k][1], rec[2][k][2])
          THEN <<<<rec[2][k][1], rec[2][k][2], rec[1]>>>> ELSE <<>>)
         \o InvalidLinesOfRecord(rec, k + 1)
RECURSIVE InvalidLines(_, _)
InvalidLines(split, i) ==
    IF i > Len(split) THEN <<>>
    ELSE InvalidLinesOfRecord(split[i], 1) \o InvalidLines(split, i + 1)

\* C9: when main has completed, error.txt holds exactly the "Invalid span"
\* lines of the test-split conversion; the file as the train-split call
\* closed it held the train split's lines, and none of them survives the
\* second call's open.
C9_OnlyTestLogSurvives ==
    /\ prepPc = "done" => errorTxt = InvalidLines(test, 1)
    /\ (call = "test" \/ (call = "train" /\ prepPc = "open")) =>
          trainLog = InvalidLines(train, 1)
    /\ (call = "test" /\ prepPc = "loop" /\ db = <<>>) => errorTxt = <<>>

\* main completed after both calls logged an invalid span, the file now
\* being different from what the train-split call left
C9_Witness ==
    /\ prepPc = "done"
    /\ trainLog # <<>> /\ errorTxt # <<>>
    /\ errorTxt # trainLog
    /\ \A q \in 1..Len(trainLog) : ~Contains(errorTxt, trainLog[q])

-----------------------------------------------------------------------------
(* Claims about the sweep (SpecSweep)                                      *)

Printed(msg) == \E p \in 1..Len(stdout) : stdout[p] = msg
Failures == {k \in 1..Len(results) : results[k]}

\* C4 as stated: once spacy_train has raised in a sweep run the error is
\* printed and the program terminates: no further run is started after the
\* failed run and "Sweep completed" is never printed.
C4_FailureEndsProgram ==
    \A k \in Failures :
       /\ Printed("Training failed") \/ Printed("An error occurred during training")
       /\ k = Len(results) /\ sweepPc # "train"
       /\ ~Printed("Sweep completed")

\* C4 amended: in ner_training.py a spacy_train failure inside train_sweep is
\* printed, followed at once by "Run finished", and does not end the program:
\* the process has no exit status until the agent has made all AgentCount
\* runs, and then "Sweep completed" is the last line printed and the status
\* is 0, failed runs or not.  Only spacy_train_sweep.py prints the error and
\* exits with status 1.
C4_FailedRunIsSwallowed ==
    /\ prog = "sweep" =>
          /\ \A p \in 1..Len(stdout) :
                stdout[p] = "Training failed" =>
                   p < Len(stdout) /\ stdout[p + 1] = "Run finished"
          /\ Cardinality({p \in 1..Len(stdout) : stdout[p] = "Training failed"})
                = Cardinality(Failures)
          /\ Failures # {} => exitCode \in {"none", "0"} /\ sweepPc # "exited"
          /\ sweepPc = "done" =>
                /\ Len(results) = AgentCount
                /\ stdout[Len(stdout)] = "Sweep completed"
                /\ exitCode = "0"
          /\ (sweepPc = "agent" /\ Len(results) < AgentCount) => ENABLED AgentStartsRun
    /\ prog = "sweep_script" =>
          (Failures # {} <=> (sweepPc = "exited" /\ exitCode = "1"
                              /\ stdout = <<"An error occurred during training">>))

\* the sweep completed although its first run failed and a later one did not
C4_Witness ==
    /\ prog = "sweep" /\ sweepPc = "done"
    /\ results[1] /\ ~results[2]
    /\ Printed("Sweep completed")

-----------------------------------------------------------------------------
(* Claims about inference (SpecInfer)                                      *)

\* the request failed: the POST raised or timed out, the status is an error,
\* or the body has no choices[0].message.content
RequestFailed(r) ==
    \/ r.kind \in {"ConnectionError", "Timeout"}
    \/ r.status >= 400
    \/ ~r.json
    \/ r.choices < 1 \/ ~r.message \/ ~r.hasContent

\* C6: once the request has been issued the program never ends with an
\* exception; the value returned starts with the error prefix if the request
\* failed and is the first choice's content otherwise; main then prints it
\* right under the analysis header and ends with status 0.
C6_SummaryNeverRaises ==
    requests # <<>> =>
       /\ inferPc \in {"print", "done"}
       /\ RequestFailed(response) => summary[1] = ErrorPrefix
       /\ ~RequestFailed(response) => summary = <<"", response.content>>
       /\ inferPc = "done" =>
             /\ exitCode = "0"
             /\ stdout[Len(stdout) - 1] = Header
             /\ stdout[Len(stdout)] = summary

\* main ended normally after a reply whose body had an empty choices list
C6_Witness ==
    /\ inferPc = "done" /\ requests # <<>>
    /\ response.kind = "response" /\ response.status = 200 /\ response.choices = 0
    /\ summary = <<ErrorPrefix, "IndexError">>

\* the lines main prints, in order, when nothing fails
FullOutput ==
    <<"Extracting text", "Loading NER model", "Detected entities",
      "Saved extracted entities", "=== Extracted Entities ===">>
    \o (IF useLlm THEN <<"Calling OpenRouter API", Header, summary>> ELSE <<>>)

IsPrefix(p, q) ==
    Len(p) <= Len(q) /\ \A n \in 1..Len(p) : p[n] = q[n]

\* C7: the steps run in the order extraction, NER, write, summary (what is
\* printed is a prefix of the full output, and the program is done only after
\* all of it); a request is issued at most once, only with USE_LLM_ANALYSIS
\* and only when OUTPUT_JSON holds the complete ner_json; the file is the same
\* after the call, failed or not; the request carries the typed job position,
\* or "Staff Divisi Sponsor" if nothing was typed.
C7_StepsInOrder ==
    /\ inferPc # "crashed" => IsPrefix(stdout, FullOutput)
    /\ (inferPc = "done" /\ IsPrefix(stdout, FullOutput)) => stdout = FullOutput
    /\ requests # <<>> =>
          /\ useLlm /\ Len(requests) = 1
          /\ outFile = [exists |-> TRUE, complete |-> TRUE, content |-> nerJson]
          /\ requests[1].ner = nerJson
          /\ requests[1].job = (IF jobInput = "" THEN "Staff Divisi Sponsor" ELSE jobInput)
    /\ inferPc \in {"ask", "call"} => (requests = <<>> /\ outFile.complete)
    /\ ~useLlm => requests = <<>>

\* main ended after a failed request sent with the default job position; the
\* file that existed before now holds the entities
C7_Witness ==
    /\ inferPc = "done" /\ useLlm /\ jobInput = ""
    /\ Len(requests) = 1 /\ requests[1].job = DefaultJob
    /\ RequestFailed(response)
    /\ nerJson # <<>> /\ outFile.content = nerJson

====
